---- MODULE Spec2Model ----
(***************************************************************************)
(* Model of the pipeline orchestrator go() of src/main.py.                 *)
(*                                                                         *)
(* A Python string that is split on commas is modelled as a sequence of    *)
(* chunks: a chunk is either the separator "," or a non-empty piece of     *)
(* text that holds no comma.  Every other string is a TLA+ string.  A      *)
(* path is the sequence of its components, the text of a file the sequence *)
(* of its characters.  The configuration is a nested mapping: section name *)
(* -> section; a section holds its keys in document order (order) and the  *)
(* value of each key (at); a key absent from the document is absent from   *)
(* both.  A value of random_forest_pipeline is a scalar with its type.     *)
(***************************************************************************)
EXTENDS Naturals, Sequences, FiniteSets, TLC

VARIABLES
    config,            \* the DictConfig handed to go()
    cwd,               \* working directory of the process (Hydra's run directory)
    environ,           \* os.environ, restricted to the keys go() writes
    root_path,         \* hydra.utils.get_original_cwd()
    steps_to_execute,  \* list of step names computed at lines 22-26
    model_config,      \* absolute path computed at line 93
    run_handle,        \* the variable _ : what the last mlflow.run returned
    pc,                \* position of go() in its body
    cur,               \* index in Canonical of the if-block go() stands at
    calls,             \* mlflow.run calls issued so far, in order
    active,            \* steps whose mlflow.run call has not returned yet
    files,             \* file system: path -> content, for the paths written
    events,            \* every side effect of the run, in order
    error,             \* the exception that ended the run, or "none"
    runs,              \* number of invocations of go() started so far
    past               \* the mlflow.run calls of earlier invocations

vars == << config, cwd, environ, root_path, steps_to_execute, model_config,
           run_handle, pc, cur, calls, active, files, events, error, runs, past >>

----------------------------------------------------------------------------
(* Bounds of the model *)

\* Longest execute_steps drawn exhaustively, for a complete configuration and
\* for a configuration that lacks a key.
MaxLen == 3
MaxLenIncomplete == 2
MaxRuns == 2

----------------------------------------------------------------------------
(* Helpers on sequences *)

Range(s) == { s[i] : i \in 1..Len(s) }

SeqsUpTo(S, n) == UNION { [1..k -> S] : k \in 0..n }

RECURSIVE Reverse(_)
Reverse(s) == IF s = << >> THEN << >> ELSE Append(Reverse(Tail(s)), Head(s))

----------------------------------------------------------------------------
(* The six if-blocks of go(), in the order they appear in the source *)

Canonical == << "download", "preprocess", "check_data", "segregate",
                "random_forest", "evaluate" >>

StepNames == Range(Canonical)

ENTRY_POINT == "main"

NoHandle == "no_run"
Handles == { "run_a", "run_b" }

----------------------------------------------------------------------------
(* str.split(",") and the string-or-list normalisation of lines 22-26 *)

\* Text of the chunks up to the first separator.
RECURSIVE FirstToken(_)
FirstToken(s) ==
    IF s = << >> \/ Head(s) = "," THEN ""
    ELSE Head(s) \o FirstToken(Tail(s))

\* What follows the first separator; << >> when there is none.
RECURSIVE AfterSep(_)
AfterSep(s) ==
    IF s = << >> THEN << >>
    ELSE IF Head(s) = "," THEN Tail(s)
    ELSE AfterSep(Tail(s))

HasSep(s) == \E i \in 1..Len(s) : s[i] = ","

\* The whole text of a chunk sequence.
RECURSIVE Concat(_)
Concat(s) == IF s = << >> THEN "" ELSE Head(s) \o Concat(Tail(s))

\* A slip: the string is split on a separator it does not hold.
Split_WrongSeparator(s) == << Concat(s) >>

\* s.split(","): always at least one element; "" gives [""].
RECURSIVE Split(_)
Split(s) ==
    IF HasSep(s) THEN << FirstToken(s) >> \o Split(AfterSep(s))
    ELSE << FirstToken(s) >>

ResolveSteps(execute_steps) ==
    IF execute_steps.type = "str"
    THEN Split(execute_steps.str)
    ELSE execute_steps.list

----------------------------------------------------------------------------
(* The configuration document and the other inputs of a run *)

ExportArtifacts == { "model_export", "rf_model" }

OriginalCwd == << "repo" >>

\* Hydra runs go() in a run directory of its own, below the original one.
DefaultCwd == << "repo", "outputs", "run_1" >>

Cwds == { DefaultCwd, << "repo", "outputs", "run_2" >> }

StrSteps(chunks) == [type |-> "str", str |-> chunks, list |-> << >>]

ListSteps(names) == [type |-> "list", str |-> << >>, list |-> names]

\* A scalar of the document, with the type YAML gave it.
Str(text) == [type |-> "str", text |-> text]

Int(text) == [type |-> "int", text |-> text]

\* The random_forest_pipeline section as the repository's config.yaml has it.
DefaultPipeline(export_artifact) ==
    [ order |-> << "export_artifact", "n_estimators" >>,
      at |-> [ export_artifact |-> Str(export_artifact),
               n_estimators |-> Int("100") ] ]

\* Other documents: the keys in another order and n_estimators given as the
\* string "100"; one more key.
OtherPipelines(export_artifact) ==
    { [ order |-> << "n_estimators", "export_artifact" >>,
        at |-> [ export_artifact |-> Str(export_artifact),
                 n_estimators |-> Str("100") ] ],
      [ order |-> << "export_artifact", "n_estimators", "criterion" >>,
        at |-> [ export_artifact |-> Str(export_artifact),
                 n_estimators |-> Int("100"),
                 criterion |-> Str("gini") ] ] }

\* A complete configuration document.
FullConfig(execute_steps, export_artifact) ==
    [ main |->
        [ order |-> << "project_name", "experiment_name", "execute_steps",
                       "random_seed" >>,
          at |-> [ project_name |-> "genre_classification",
                   experiment_name |-> "dev",
                   execute_steps |-> execute_steps,
                   random_seed |-> "42" ] ],
      data |->
        [ order |-> << "file_url", "reference_dataset", "ks_alpha", "test_size",
                       "val_size", "stratify" >>,
          at |-> [ file_url |-> "https://example.org/genres_mod.parquet",
                   reference_dataset |-> "genre_classification/preprocessed_data.csv:latest",
                   ks_alpha |-> "0.05",
                   test_size |-> "0.3",
                   val_size |-> "0.3",
                   stratify |-> "genre" ] ],
      random_forest_pipeline |-> DefaultPipeline(export_artifact) ]

\* The document with another random_forest_pipeline section.
WithPipeline(cfg, section) ==
    [ s \in DOMAIN cfg |-> IF s = "random_forest_pipeline" THEN section ELSE cfg[s] ]

\* The document without one field, or without one whole section (fld = "*").
Drop(cfg, sec, fld) ==
    IF fld = "*"
    THEN [ s \in DOMAIN cfg \ {sec} |-> cfg[s] ]
    ELSE [ s \in DOMAIN cfg |->
             IF s = sec
             THEN [ order |-> SelectSeq(cfg[s].order, LAMBDA f : f # fld),
                    at |-> [ f \in DOMAIN cfg[s].at \ {fld} |-> cfg[s].at[f] ] ]
             ELSE cfg[s] ]

\* The keys go() reads, as << section, field >>.
ReadKeys ==
    { << "main", "project_name" >>, << "main", "experiment_name" >>,
      << "main", "execute_steps" >>, << "main", "random_seed" >>,
      << "data", "file_url" >>, << "data", "reference_dataset" >>,
      << "data", "ks_alpha" >>, << "data", "test_size" >>,
      << "data", "val_size" >>, << "data", "stratify" >>,
      << "random_forest_pipeline", "export_artifact" >>,
      << "random_forest_pipeline", "*" >> }

Has(cfg, sec, fld) == sec \in DOMAIN cfg /\ fld \in DOMAIN cfg[sec].at

\* Names drawn for execute_steps: the six steps and a name that is no step.
Tokens == StepNames \cup { "bogus_step" }

\* ",".join(names), as chunks.
RECURSIVE Join(_)
Join(names) ==
    IF names = << >> THEN << >>
    ELSE (IF Head(names) = "" THEN << >> ELSE << Head(names) >>)
         \o (IF Len(names) = 1 THEN << >> ELSE << "," >> \o Join(Tail(names)))

\* Every list of at most n names, the full list in both orders, and lists with
\* the empty name (as in [""] and in "download,").
NameLists(n) ==
    SeqsUpTo(Tokens, n)
    \cup { Canonical, Reverse(Canonical), << "" >>, << "download", "" >> }

ExecuteStepsInputs(n) ==
    { ListSteps(l) : l \in NameLists(n) } \cup { StrSteps(Join(l)) : l \in NameLists(n) }

CompleteInputs == ExecuteStepsInputs(MaxLen)

IncompleteInputs == ExecuteStepsInputs(MaxLenIncomplete)

\* The documents with execute_steps = x: the complete one and, for the shorter
\* x, the ones that lack a key go() reads or hold another pipeline section.
Configs(x) ==
    { FullConfig(x, "model_export") }
    \cup (IF x \in IncompleteInputs
          THEN { Drop(FullConfig(x, "model_export"), k[1], k[2]) : k \in ReadKeys }
               \cup { WithPipeline(FullConfig(x, "model_export"), p) :
                        p \in OtherPipelines("model_export") }
          ELSE { })

\* os.environ as the process inherits it, restricted to the keys go() writes.
InheritedEnvirons ==
    { [ k \in { } |-> "" ],
      [ WANDB_PROJECT |-> "from_shell" ],
      [ WANDB_RUN_GROUP |-> "from_shell" ],
      [ WANDB_PROJECT |-> "from_shell", WANDB_RUN_GROUP |-> "from_shell" ] }

----------------------------------------------------------------------------
(* Pure pieces of go() *)

\* A slip: an empty list of steps is taken to mean every step.
Selected_EmptyMeansAll(step) ==
    steps_to_execute = << >> \/ step \in Range(steps_to_execute)

\* "<step>" in steps_to_execute
Selected(step) == step \in Range(steps_to_execute)

\* os.path.join(root_path, step)
StepUri(step) == root_path \o << step >>

\* A slip: the path is passed on as written, relative.
Abspath_Relative(name) == << name >>

\* os.path.abspath(name)
Abspath(name) == cwd \o << name >>

\* The characters of a string, for the strings a random_forest_pipeline
\* section of the model holds.
Spell(text) ==
    CASE text = "export_artifact" ->
           << "e", "x", "p", "o", "r", "t", "_", "a", "r", "t", "i", "f", "a", "c", "t" >>
      [] text = "n_estimators" ->
           << "n", "_", "e", "s", "t", "i", "m", "a", "t", "o", "r", "s" >>
      [] text = "criterion" ->
           << "c", "r", "i", "t", "e", "r", "i", "o", "n" >>
      [] text = "model_export" ->
           << "m", "o", "d", "e", "l", "_", "e", "x", "p", "o", "r", "t" >>
      [] text = "rf_model" ->
           << "r", "f", "_", "m", "o", "d", "e", "l" >>
      [] text = "100" ->
           << "1", "0", "0" >>
      [] text = "gini" ->
           << "g", "i", "n", "i" >>

Digits == { "0", "1", "2", "3", "4", "5", "6", "7", "8", "9" }

\* A scalar as YAML text: a string that would read back as a number is quoted.
YamlScalar(value) ==
    LET chars == Spell(value.text)
    IN  IF value.type = "str" /\ chars # << >> /\ Range(chars) \subseteq Digits
        THEN << "'" >> \o chars \o << "'" >>
        ELSE chars

\* The "key: value" lines of the keys order[from..], in that order.
RECURSIVE YamlLines(_, _)
YamlLines(section, from) ==
    IF from > Len(section.order) THEN << >>
    ELSE LET key == section.order[from]
         IN  Spell(key) \o << ":", " " >> \o YamlScalar(section.at[key]) \o << "\n" >>
             \o YamlLines(section, from + 1)

\* OmegaConf.to_yaml(section): every key of the section, in document order.
ToYaml(section) == YamlLines(section, 1)

\* The configuration keys the parameters= dictionary of a step reads.
ParameterKeys(step) ==
    CASE step = "download"      -> { << "data", "file_url" >> }
      [] step = "preprocess"    -> { }
      [] step = "check_data"    -> { << "data", "reference_dataset" >>,
                                     << "data", "ks_alpha" >> }
      [] step = "segregate"     -> { << "data", "test_size" >>,
                                     << "data", "stratify" >> }
      [] step = "random_forest" -> { << "random_forest_pipeline", "export_artifact" >>,
                                     << "main", "random_seed" >>,
                                     << "data", "val_size" >>,
                                     << "data", "stratify" >> }
      [] step = "evaluate"      -> { << "random_forest_pipeline", "export_artifact" >> }

ParametersDefined(step) == \A k \in ParameterKeys(step) : Has(config, k[1], k[2])

\* Lines 36-41
DownloadParameters ==
    [ file_url |-> config.data.at.file_url,
      artifact_name |-> "raw_data.parquet",
      artifact_type |-> "raw_data",
      artifact_description |-> "Data as downloaded" ]

\* Lines 50-55
PreprocessParameters ==
    [ input_artifact |-> "raw_data.parquet:latest",
      artifact_name |-> "preprocessed_data.csv",
      artifact_type |-> "processed_data",
      artifact_description |-> "Data after processing" ]

\* Lines 65-69
CheckDataParameters ==
    [ reference_artifact |-> config.data.at.reference_dataset,
      sample_artifact |-> "preprocessed_data.csv:latest",
      ks_alpha |-> config.data.at.ks_alpha ]

\* Lines 79-85
SegregateParameters ==
    [ input_artifact |-> "preprocessed_data.csv:latest",
      artifact_root |-> "dataset",
      artifact_type |-> "stratified_data",
      test_size |-> config.data.at.test_size,
      stratify |-> config.data.at.stratify ]

\* Lines 102-109
RandomForestParameters ==
    [ train_data |-> "dataset_train.csv:latest",
      model_config |-> model_config,
      export_artifact |-> config.random_forest_pipeline.at.export_artifact.text,
      random_seed |-> config.main.at.random_seed,
      val_size |-> config.data.at.val_size,
      stratify |-> config.data.at.stratify ]

\* A slip: the model reference takes the identifier of the run that the
\* previous mlflow.run returned as its version, instead of the tag latest.
EvaluateParameters_RunVersion ==
    [ model_export |-> config.random_forest_pipeline.at.export_artifact.text \o ":"
                         \o (IF run_handle = NoHandle THEN "latest" ELSE run_handle),
      test_data |-> "dataset_test.csv:latest" ]

\* Lines 119-122
EvaluateParameters ==
    [ model_export |-> config.random_forest_pipeline.at.export_artifact.text \o ":latest",
      test_data |-> "dataset_test.csv:latest" ]

\* The parameters= dictionary of a step.
Parameters(step) ==
    CASE step = "download"      -> DownloadParameters
      [] step = "preprocess"    -> PreprocessParameters
      [] step = "check_data"    -> CheckDataParameters
      [] step = "segregate"     -> SegregateParameters
      [] step = "random_forest" -> RandomForestParameters
      [] step = "evaluate"      -> EvaluateParameters

----------------------------------------------------------------------------
(* State at the entry of go() *)

NoPath == << >>

EmptyMap == [ k \in { } |-> "" ]

Put(map, key, value) ==
    [ k \in DOMAIN map \cup {key} |-> IF k = key THEN value ELSE map[k] ]

Event(op, arg) == [op |-> op, arg |-> arg]

\* A fresh process entering go() with configuration c in directory d and
\* the inherited environment e.
Enter(c, d, e) ==
    /\ config = c
    /\ cwd = d
    /\ environ = e
    /\ root_path = NoPath
    /\ steps_to_execute = << >>
    /\ model_config = NoPath
    /\ run_handle = NoHandle
    /\ pc = "setenv_project"
    /\ cur = 1
    /\ calls = << >>
    /\ active = { }
    /\ events = << >>
    /\ error = "none"

Init ==
    /\ \E x \in CompleteInputs :
         \E c \in Configs(x), e \in InheritedEnvirons : Enter(c, DefaultCwd, e)
    /\ files = EmptyMap
    /\ runs = 1
    /\ past = { }

----------------------------------------------------------------------------
(* Statements of go() *)

\* An exception leaves go(): nothing after the raising statement runs.
Raise(kind) ==
    /\ pc' = "failed"
    /\ error' = kind
    /\ events' = Append(events, Event("raise", kind))

\* Control reaches the if-block after the one at index cur, or the end of go().
Advance ==
    /\ pc' = IF cur = Len(Canonical) THEN "done" ELSE "if"
    /\ cur' = IF cur = Len(Canonical) THEN cur ELSE cur + 1

\* Line 15: os.environ["WANDB_PROJECT"] = config["main"]["project_name"]
SetWandbProject ==
    /\ pc = "setenv_project"
    /\ IF Has(config, "main", "project_name")
       THEN /\ environ' = Put(environ, "WANDB_PROJECT", config.main.at.project_name)
            /\ events' = Append(events, Event("setenv", "WANDB_PROJECT"))
            /\ pc' = "setenv_group"
            /\ UNCHANGED error
       ELSE /\ Raise("ConfigurationError")
            /\ UNCHANGED environ
    /\ UNCHANGED << config, cwd, root_path, steps_to_execute, model_config,
                    run_handle, cur, calls, active, files, runs, past >>

\* A slip: line 16 writes the key of line 15 again.
SetWandbRunGroup_WrongKey ==
    /\ pc = "setenv_group"
    /\ IF Has(config, "main", "experiment_name")
       THEN /\ environ' = Put(environ, "WANDB_PROJECT", config.main.at.experiment_name)
            /\ events' = Append(events, Event("setenv", "WANDB_PROJECT"))
            /\ pc' = "resolve"
            /\ UNCHANGED error
       ELSE /\ Raise("ConfigurationError")
            /\ UNCHANGED environ
    /\ UNCHANGED << config, cwd, root_path, steps_to_execute, model_config,
                    run_handle, cur, calls, active, files, runs, past >>

\* Line 16: os.environ["WANDB_RUN_GROUP"] = config["main"]["experiment_name"]
SetWandbRunGroup ==
    /\ pc = "setenv_group"
    /\ IF Has(config, "main", "experiment_name")
       THEN /\ environ' = Put(environ, "WANDB_RUN_GROUP", config.main.at.experiment_name)
            /\ events' = Append(events, Event("setenv", "WANDB_RUN_GROUP"))
            /\ pc' = "resolve"
            /\ UNCHANGED error
       ELSE /\ Raise("ConfigurationError")
            /\ UNCHANGED environ
    /\ UNCHANGED << config, cwd, root_path, steps_to_execute, model_config,
                    run_handle, cur, calls, active, files, runs, past >>

\* A slip: a name that is no step is rejected.
CheckSteps_Strict ==
    /\ pc = "resolve"
    /\ root_path' = OriginalCwd
    /\ IF /\ Has(config, "main", "execute_steps")
          /\ Range(ResolveSteps(config.main.at.execute_steps)) \subseteq StepNames
       THEN /\ steps_to_execute' = ResolveSteps(config.main.at.execute_steps)
            /\ pc' = "if"
            /\ UNCHANGED << error, events >>
       ELSE /\ Raise("ConfigurationError")
            /\ UNCHANGED steps_to_execute
    /\ UNCHANGED << config, cwd, environ, model_config, run_handle, cur, calls,
                    active, files, runs, past >>

\* Lines 19-26: root_path, then steps_to_execute from the string or the list.
CheckSteps ==
    /\ pc = "resolve"
    /\ root_path' = OriginalCwd
    /\ IF Has(config, "main", "execute_steps")
       THEN /\ steps_to_execute' = ResolveSteps(config.main.at.execute_steps)
            /\ pc' = "if"
            /\ UNCHANGED << error, events >>
       ELSE /\ Raise("ConfigurationError")
            /\ UNCHANGED steps_to_execute
    /\ UNCHANGED << config, cwd, environ, model_config, run_handle, cur, calls,
                    active, files, runs, past >>

\* The mlflow.run(...) statement of a step: the parameters= dictionary is
\* built first (a missing key raises before the call), then the call is made
\* and go() blocks in it.
MlflowRun(step) ==
    IF ParametersDefined(step)
    THEN /\ calls' = Append(calls, [ uri |-> StepUri(step),
                                     entry_point |-> ENTRY_POINT,
                                     parameters |-> Parameters(step),
                                     env |-> environ ])
         /\ active' = active \cup {step}
         /\ events' = Append(events, Event("run", step))
         /\ pc' = "in_run"
         /\ UNCHANGED error
    ELSE /\ Raise("ConfigurationError")
         /\ UNCHANGED << calls, active >>

\* A slip: a selected step whose parameters cannot be built is passed over.
StepBlock_SkipMisconfigured(step) ==
    /\ pc = "if"
    /\ Canonical[cur] = step
    /\ IF Selected(step) /\ ParametersDefined(step)
       THEN MlflowRun(step) /\ UNCHANGED cur
       ELSE Advance /\ UNCHANGED << calls, active, events, error >>
    /\ UNCHANGED << config, cwd, environ, root_path, steps_to_execute,
                    model_config, run_handle, files, runs, past >>

\* A slip: the step is launched without waiting for it (synchronous=False).
StepBlock_Async(step) ==
    /\ pc = "if"
    /\ Canonical[cur] = step
    /\ IF Selected(step)
       THEN /\ ParametersDefined(step)
            /\ calls' = Append(calls, [ uri |-> StepUri(step),
                                        entry_point |-> ENTRY_POINT,
                                        parameters |-> Parameters(step),
                                        env |-> environ ])
            /\ active' = active \cup {step}
            /\ events' = Append(events, Event("run", step))
            /\ Advance
            /\ UNCHANGED error
       ELSE Advance /\ UNCHANGED << calls, active, events, error >>
    /\ UNCHANGED << config, cwd, environ, root_path, steps_to_execute,
                    model_config, run_handle, files, runs, past >>

\* An if-block whose body is one mlflow.run statement.
StepBlock(step) ==
    /\ pc = "if"
    /\ Canonical[cur] = step
    /\ IF Selected(step)
       THEN MlflowRun(step) /\ UNCHANGED cur
       ELSE Advance /\ UNCHANGED << calls, active, events, error >>
    /\ UNCHANGED << config, cwd, environ, root_path, steps_to_execute,
                    model_config, run_handle, files, runs, past >>

\* Lines 30-42
Download == StepBlock("download")

\* Lines 44-57
Preprocess == StepBlock("preprocess")

\* Lines 59-71
CheckData == StepBlock("check_data")

\* Lines 73-87
Segregate == StepBlock("segregate")

\* Lines 113-124
Evaluate == StepBlock("evaluate")

\* Lines 89-95: the test of the random_forest block, the path, and open(.., "w+"),
\* which creates or truncates the file.
RandomForestOpen ==
    /\ pc = "if"
    /\ Canonical[cur] = "random_forest"
    /\ IF Selected("random_forest")
       THEN /\ model_config' = Abspath("random_forest_config.yml")
            /\ files' = Put(files, model_config', << >>)
            /\ events' = Append(events, Event("open", "random_forest_config.yml"))
            /\ pc' = "write"
            /\ UNCHANGED << cur, error >>
       ELSE /\ Advance
            /\ UNCHANGED << model_config, files, events, error >>
    /\ UNCHANGED << config, cwd, environ, root_path, steps_to_execute,
                    run_handle, calls, active, runs, past >>

\* Line 95, open() raising (permission denied, no such directory, ...).
RandomForestOpenFails ==
    /\ pc = "if"
    /\ Canonical[cur] = "random_forest"
    /\ Selected("random_forest")
    /\ model_config' = Abspath("random_forest_config.yml")
    /\ Raise("MaterializationError")
    /\ UNCHANGED << config, cwd, environ, root_path, steps_to_execute,
                    run_handle, cur, calls, active, files, runs, past >>

\* Line 96: fp.write(OmegaConf.to_yaml(config["random_forest_pipeline"])),
\* and the close of the with block.
RandomForestWrite ==
    /\ pc = "write"
    /\ IF "random_forest_pipeline" \in DOMAIN config
       THEN /\ files' = Put(files, model_config, ToYaml(config.random_forest_pipeline))
            /\ events' = Append(events, Event("write", "random_forest_config.yml"))
            /\ pc' = "run"
            /\ UNCHANGED error
       ELSE /\ Raise("ConfigurationError")
            /\ UNCHANGED files
    /\ UNCHANGED << config, cwd, environ, root_path, steps_to_execute,
                    model_config, run_handle, cur, calls, active, runs, past >>

\* A slip: the failure of the write is caught and the run goes on.
RandomForestWriteFails_Ignored ==
    /\ pc = "write"
    /\ "random_forest_pipeline" \in DOMAIN config
    /\ pc' = "run"
    /\ error' = "MaterializationError"
    /\ events' = Append(events, Event("raise", "MaterializationError"))
    /\ UNCHANGED << config, cwd, environ, root_path, steps_to_execute,
                    model_config, run_handle, cur, calls, active, files, runs, past >>

\* Lines 95-96, the write or the close of the with block raising (disk full,
\* file size limit, ...): the file keeps the part of the text the device
\* accepted, possibly none or all of it.
RandomForestWriteFails ==
    /\ pc = "write"
    /\ "random_forest_pipeline" \in DOMAIN config
    /\ \E n \in 0..Len(ToYaml(config.random_forest_pipeline)) :
         files' = Put(files, model_config,
                      SubSeq(ToYaml(config.random_forest_pipeline), 1, n))
    /\ Raise("MaterializationError")
    /\ UNCHANGED << config, cwd, environ, root_path, steps_to_execute,
                    model_config, run_handle, cur, calls, active, runs, past >>

\* Lines 99-111
RandomForest ==
    /\ pc = "run"
    /\ MlflowRun("random_forest")
    /\ UNCHANGED << config, cwd, environ, root_path, steps_to_execute,
                    model_config, run_handle, cur, files, runs, past >>

\* mlflow.run returns a run handle, which go() binds to _ and never reads.
MlflowRunReturns ==
    /\ pc = "in_run"
    /\ \E h \in Handles : run_handle' = h
    /\ active' = active \ { Canonical[cur] }
    /\ events' = Append(events, Event("return", Canonical[cur]))
    /\ Advance
    /\ UNCHANGED << config, cwd, environ, root_path, steps_to_execute,
                    model_config, calls, files, error, runs, past >>

\* A slip: the failure of a step is caught and the next block runs.
MlflowRunRaises_Swallowed ==
    /\ pc = "in_run"
    /\ active' = active \ { Canonical[cur] }
    /\ error' = "StepDispatchError"
    /\ events' = Append(events, Event("raise", "StepDispatchError"))
    /\ Advance
    /\ UNCHANGED << config, cwd, environ, root_path, steps_to_execute,
                    model_config, run_handle, calls, files, runs, past >>

\* mlflow.run raises: the step's process failed.
MlflowRunRaises ==
    /\ pc = "in_run"
    /\ active' = active \ { Canonical[cur] }
    /\ Raise("StepDispatchError")
    /\ UNCHANGED << config, cwd, environ, root_path, steps_to_execute,
                    model_config, run_handle, cur, calls, files, runs, past >>

Next ==
    \/ SetWandbProject
    \/ SetWandbRunGroup
    \/ CheckSteps
    \/ Download
    \/ Preprocess
    \/ CheckData
    \/ Segregate
    \/ RandomForestOpen
    \/ RandomForestOpenFails
    \/ RandomForestWrite
    \/ RandomForestWriteFails
    \/ RandomForest
    \/ Evaluate
    \/ MlflowRunReturns
    \/ MlflowRunRaises

Spec == Init /\ [][Next]_vars

----------------------------------------------------------------------------
(* Several invocations of go(), one after the other, on the same machine *)

\* The step an mlflow.run call was made for: the last component of its uri.
StepOf(call) == call.uri[Len(call.uri)]

\* The configuration without the selection of steps.
Settings(cfg) == Drop(cfg, "main", "execute_steps")

Archive(call) ==
    [ settings |-> Settings(config), cwd |-> cwd, step |-> StepOf(call),
      parameters |-> call.parameters ]

\* The selections of the invocations: every step, one step, and two lists
\* out of order that share steps with the first.
RunSelections ==
    { ListSteps(Canonical),
      StrSteps(<< "random_forest" >>),
      ListSteps(<< "evaluate", "check_data" >>),
      ListSteps(<< "segregate", "preprocess", "download" >>) }

\* The configurations of the invocations: every selection with the export
\* artifact named rf_model, and the two short selections that read the name
\* also with the other name.
RunConfigs ==
    { FullConfig(x, "rf_model") : x \in RunSelections }
      \cup { FullConfig(StrSteps(<< "random_forest" >>), "model_export"),
              FullConfig(ListSteps(<< "evaluate", "check_data" >>), "model_export") }

\* The first invocation runs the whole pipeline, in the first run directory,
\* with the export artifact named rf_model; the later ones take any of
\* RunConfigs in any of Cwds.
InitRuns ==
    /\ Enter(FullConfig(ListSteps(Canonical), "rf_model"), DefaultCwd, EmptyMap)
    /\ files = EmptyMap
    /\ runs = 1
    /\ past = { }

\* go() has ended; the program is started again, as a new process (fresh
\* environment and locals) on the same file system: what the earlier
\* invocations left in their run directories is still there.
NewRun ==
    /\ pc \in { "done", "failed" }
    /\ runs < MaxRuns
    /\ runs' = runs + 1
    /\ past' = past \cup { Archive(calls[i]) : i \in 1..Len(calls) }
    /\ \E c \in RunConfigs, d \in Cwds :
         /\ config' = c
         /\ cwd' = d
    /\ environ' = EmptyMap
    /\ root_path' = NoPath
    /\ steps_to_execute' = << >>
    /\ model_config' = NoPath
    /\ run_handle' = NoHandle
    /\ pc' = "setenv_project"
    /\ cur' = 1
    /\ calls' = << >>
    /\ active' = { }
    /\ events' = << >>
    /\ error' = "none"
    /\ UNCHANGED files

NextRuns == Next \/ NewRun

SpecRuns == InitRuns /\ [][NextRuns]_vars

----------------------------------------------------------------------------
(* Vocabulary of the properties *)

Last(s) == s[Len(s)]

IsPrefix(s, t) == Len(s) <= Len(t) /\ \A i \in 1..Len(s) : s[i] = t[i]

NoDuplicates(s) == \A i, j \in 1..Len(s) : s[i] = s[j] => i = j

\* The steps dispatched so far in this run, in the order of the calls.
DispatchedSteps == [ i \in 1..Len(calls) |-> StepOf(calls[i]) ]

\* The step names an execute_steps value names: the elements of the list, or
\* the chunks of the string that stand alone between separators.
Named(x) ==
    IF x.type = "list"
    THEN Range(x.list) \cap StepNames
    ELSE { s \in StepNames :
             \E i \in 1..Len(x.str) :
                /\ x.str[i] = s
                /\ (i = 1 \/ x.str[i - 1] = ",")
                /\ (i = Len(x.str) \/ x.str[i + 1] = ",") }

\* The execution plan: the canonical list restricted to the named steps.
Plan(x) == SelectSeq(Canonical, LAMBDA s : s \in Named(x))

HasSteps == Has(config, "main", "execute_steps")

Input == config.main.at.execute_steps

TrackingConfigured ==
    Has(config, "main", "project_name") /\ Has(config, "main", "experiment_name")

Missing(cfg, k) ==
    IF k[2] = "*" THEN k[1] \notin DOMAIN cfg ELSE ~Has(cfg, k[1], k[2])

ConfigFile == "random_forest_config.yml"

\* Positions in the log.
Before(e, f) ==
    \E i, j \in 1..Len(events) : i < j /\ events[i] = e /\ events[j] = f

Happened(e) == \E i \in 1..Len(events) : events[i] = e

Count(e) == Cardinality({ i \in 1..Len(events) : events[i] = e })

----------------------------------------------------------------------------
(* C1 *)

\* C1: whatever the textual order and the repetitions in execute_steps (string
\* or list), the steps dispatched so far are an initial part of the canonical
\* list restricted to the named steps, and a run in which every dispatch
\* succeeded has dispatched exactly that list, each named step once.
C1_CanonicalPlan ==
    /\ ~HasSteps => calls = << >>
    /\ HasSteps =>
         /\ IsPrefix(DispatchedSteps, Plan(Input))
         /\ pc = "done" => DispatchedSteps = Plan(Input)

C1_Witness ==
    /\ pc = "done"
    /\ HasSteps
    /\ Input = StrSteps(<< "evaluate", ",", "download", ",", "evaluate" >>)
    /\ DispatchedSteps = << "download", "evaluate" >>

----------------------------------------------------------------------------
(* C2 *)

\* C2: a failed dispatch is the last thing the run does: the run is in
\* failure, the failed step is the last one dispatched, nothing is in flight,
\* no step is dispatched twice, and no event follows the failure.
C2_FailureStopsRun ==
    /\ NoDuplicates(DispatchedSteps)
    /\ \A i \in 1..Len(events) :
         events[i] = Event("raise", "StepDispatchError") =>
            /\ i = Len(events)
            /\ i > 1 /\ events[i - 1] = Event("run", Last(DispatchedSteps))
            /\ pc = "failed"
            /\ error = "StepDispatchError"
            /\ active = { }

C2_Witness ==
    /\ HasSteps
    /\ Input = StrSteps(<< "preprocess", ",", "check_data" >>)
    /\ error = "StepDispatchError"
    /\ DispatchedSteps = << "preprocess" >>

----------------------------------------------------------------------------
(* C3 *)

\* The part of the plan before its first step whose parameters read a key the
\* configuration lacks.
PlanBeforeMisconfigured ==
    LET p == Plan(Input)
        bad == { i \in 1..Len(p) : ~ParametersDefined(p[i]) }
    IN  IF bad = { } THEN p
        ELSE SubSeq(p, 1, (CHOOSE i \in bad : \A j \in bad : i <= j) - 1)

\* C3 as stated: a run that fails on a missing configuration field has
\* dispatched nothing.
C3_Original == error = "ConfigurationError" => calls = << >>

\* C3 amended: a missing field is detected where it is read.  A field read
\* before the first if-block aborts the run with nothing dispatched; a field
\* of a selected step aborts the run at that step, after the selected steps
\* before it were dispatched; that step and the later ones never are, and no
\* run with such a step in its plan completes.
C3_AbortAtPointOfUse ==
    /\ (~TrackingConfigured \/ ~HasSteps) => calls = << >>
    /\ (TrackingConfigured /\ HasSteps) =>
         /\ IsPrefix(DispatchedSteps, PlanBeforeMisconfigured)
         /\ error = "ConfigurationError" =>
              /\ pc = "failed"
              /\ DispatchedSteps = PlanBeforeMisconfigured
              /\ PlanBeforeMisconfigured # Plan(Input)
         /\ pc = "done" => PlanBeforeMisconfigured = Plan(Input)

C3_Witness ==
    /\ error = "ConfigurationError"
    /\ HasSteps
    /\ DispatchedSteps = << "download", "preprocess" >>
    /\ "check_data" \in Named(Input)
    /\ ~Has(config, "data", "ks_alpha")

----------------------------------------------------------------------------
(* C4 *)

\* An execute_steps value with the names that are no step removed.
Sanitized(x) ==
    IF x.type = "list"
    THEN ListSteps(SelectSeq(x.list, LAMBDA n : n \in StepNames))
    ELSE StrSteps(Join(SelectSeq(Split(x.str), LAMBDA n : n \in StepNames)))

\* C4: the dispatches of a run are those of the same input without its
\* unrecognized names, and a configuration error is only ever raised for a key
\* the configuration lacks, never for a name in execute_steps.
C4_UnrecognizedIgnored ==
    /\ HasSteps =>
         /\ IsPrefix(DispatchedSteps, Plan(Sanitized(Input)))
         /\ pc = "done" => DispatchedSteps = Plan(Sanitized(Input))
    /\ error = "ConfigurationError" => \E k \in ReadKeys : Missing(config, k)
    /\ error \in { "none", "ConfigurationError", "StepDispatchError",
                   "MaterializationError" }

C4_Witness ==
    /\ pc = "done"
    /\ HasSteps
    /\ Input = StrSteps(<< "download", ",", "bogus_step" >>)
    /\ DispatchedSteps = << "download" >>
    /\ error = "none"

----------------------------------------------------------------------------
(* C5 *)

EmptyInput == HasSteps /\ Input \in { StrSteps(<< >>), ListSteps(<< >>) }

\* C5: with an empty execute_steps (and the tracking names configured) the
\* run dispatches nothing, opens and writes no file, is never in failure, and
\* goes on until it has completed.
C5_EmptyIsNoOp ==
    (EmptyInput /\ TrackingConfigured) =>
        /\ calls = << >>
        /\ active = { }
        /\ files = EmptyMap
        /\ ~Happened(Event("open", ConfigFile))
        /\ ~Happened(Event("write", ConfigFile))
        /\ error = "none"
        /\ pc \in { "setenv_project", "setenv_group", "resolve", "if", "done" }
        /\ pc # "done" => ENABLED Next

C5_Witness ==
    /\ pc = "done"
    /\ EmptyInput
    /\ Input.type = "str"
    /\ calls = << >>
    /\ files = EmptyMap

----------------------------------------------------------------------------
(* C6 *)

\* The line of a key: its name, ": ", its value, and the end of the line.
KeyLine(section, key) ==
    Spell(key) \o << ":", " " >> \o YamlScalar(section.at[key]) \o << "\n" >>

AtLineStart(text, i) == i = 1 \/ text[i - 1] = "\n"

\* The places of the text where, at the start of a line, the line of a key stands.
LineStarts(text, section, key) ==
    { i \in 1..Len(text) :
        /\ AtLineStart(text, i)
        /\ i + Len(KeyLine(section, key)) - 1 <= Len(text)
        /\ SubSeq(text, i, i + Len(KeyLine(section, key)) - 1) = KeyLine(section, key) }

\* The text holds one line for every key of the section and nothing else, the
\* lines in the order of the keys in the document.
HoldsSection(text, section) ==
    /\ \A k \in DOMAIN section.at : Cardinality(LineStarts(text, section, k)) = 1
    /\ \A i, j \in 1..Len(section.order) :
         i < j => \A a \in LineStarts(text, section, section.order[i]),
                     b \in LineStarts(text, section, section.order[j]) : a < b
    /\ Cardinality({ i \in 1..Len(text) : text[i] = "\n" })
         = Cardinality(DOMAIN section.at)
    /\ text # << >> /\ Last(text) = "\n"

\* C6: a random_forest dispatch comes after the write of the sub-configuration
\* file, its model_config is the absolute path of that file, which holds the
\* random_forest_pipeline section, and its train_data is the fixed reference;
\* the file is touched only in runs that select random_forest.
C6_ConfigFileBeforeRandomForest ==
    /\ \A i \in 1..Len(calls) :
         StepOf(calls[i]) = "random_forest" =>
            /\ Before(Event("write", ConfigFile), Event("run", "random_forest"))
            /\ calls[i].parameters.model_config = cwd \o << ConfigFile >>
            /\ calls[i].parameters.train_data = "dataset_train.csv:latest"
            /\ calls[i].parameters.model_config \in DOMAIN files
            /\ HoldsSection(files[calls[i].parameters.model_config],
                            config.random_forest_pipeline)
    /\ (files # EmptyMap \/ Happened(Event("open", ConfigFile))
                         \/ Happened(Event("write", ConfigFile)))
         => (HasSteps /\ "random_forest" \in Named(Input))

C6_Witness ==
    /\ pc = "done"
    /\ HasSteps
    /\ Input = StrSteps(<< "random_forest" >>)
    /\ DispatchedSteps = << "random_forest" >>
    /\ files # EmptyMap

----------------------------------------------------------------------------
(* C7 *)

\* C7: a run that failed to open or write the sub-configuration file is in
\* failure, the failure is the last thing it did, and it has dispatched
\* neither random_forest nor evaluate; random_forest is dispatched only after
\* a successful write.
C7_WriteFailureIsFatal ==
    /\ Happened(Event("raise", "MaterializationError")) =>
         /\ pc = "failed"
         /\ error = "MaterializationError"
         /\ Last(events) = Event("raise", "MaterializationError")
         /\ "random_forest" \notin Range(DispatchedSteps)
         /\ "evaluate" \notin Range(DispatchedSteps)
    /\ "random_forest" \in Range(DispatchedSteps) =>
         Happened(Event("write", ConfigFile))

C7_Witness ==
    /\ error = "MaterializationError"
    /\ HasSteps
    /\ { "random_forest", "evaluate" } \subseteq Named(Input)
    /\ Happened(Event("open", ConfigFile))
    /\ Len(calls) >= 1

----------------------------------------------------------------------------
(* C8 *)

\* Every dispatch of this invocation and of the earlier ones.
AllDispatches == past \cup { Archive(calls[i]) : i \in 1..Len(calls) }

\* C8 as stated: two dispatches of the same step under the same settings
\* carry the same parameters.
C8_Original ==
    \A a, b \in AllDispatches :
        (a.settings = b.settings /\ a.step = b.step) => a.parameters = b.parameters

\* C8 amended: the parameters of a dispatch are a function of the settings
\* and, for model_config of random_forest alone, of the working directory:
\* they do not depend on the steps selected or on the handles returned, and
\* each of the six steps carries the values tabulated for it.
C8_ParametersFromSettings ==
    /\ \A a, b \in AllDispatches :
         (a.step = b.step
            /\ (a.step = "random_forest" => a.cwd = b.cwd)
            /\ a.settings = b.settings)
         => a.parameters = b.parameters
    /\ \A a \in AllDispatches :
         /\ a.step \in StepNames
         /\ a.step = "download" =>
              a.parameters =
                [ file_url |-> a.settings.data.at.file_url,
                  artifact_name |-> "raw_data.parquet",
                  artifact_type |-> "raw_data",
                  artifact_description |-> "Data as downloaded" ]
         /\ a.step = "preprocess" =>
              a.parameters =
                [ input_artifact |-> "raw_data.parquet:latest",
                  artifact_name |-> "preprocessed_data.csv",
                  artifact_type |-> "processed_data",
                  artifact_description |-> "Data after processing" ]
         /\ a.step = "segregate" =>
              a.parameters =
                [ input_artifact |-> "preprocessed_data.csv:latest",
                  artifact_root |-> "dataset",
                  artifact_type |-> "stratified_data",
                  test_size |-> a.settings.data.at.test_size,
                  stratify |-> a.settings.data.at.stratify ]
         /\ a.step = "check_data" =>
              a.parameters =
                [ reference_artifact |-> a.settings.data.at.reference_dataset,
                  sample_artifact |-> "preprocessed_data.csv:latest",
                  ks_alpha |-> a.settings.data.at.ks_alpha ]
         /\ a.step = "evaluate" =>
              a.parameters =
                [ model_export |->
                    a.settings.random_forest_pipeline.at.export_artifact.text \o ":latest",
                  test_data |-> "dataset_test.csv:latest" ]
         /\ a.step = "random_forest" =>
              a.parameters =
                [ train_data |-> "dataset_train.csv:latest",
                  model_config |-> a.cwd \o << ConfigFile >>,
                  export_artifact |->
                    a.settings.random_forest_pipeline.at.export_artifact.text,
                  random_seed |-> a.settings.main.at.random_seed,
                  val_size |-> a.settings.data.at.val_size,
                  stratify |-> a.settings.data.at.stratify ]

\* Two invocations in the same directory with the same settings and different
\* selections: the first dispatched all six steps, the second has dispatched
\* check_data and evaluate again, after different earlier steps.
C8_Witness ==
    /\ runs = 2
    /\ pc = "done"
    /\ config.random_forest_pipeline.at.export_artifact.text = "rf_model"
    /\ DispatchedSteps = << "check_data", "evaluate" >>
    /\ \E a \in past :
         /\ a.step = "evaluate"
         /\ a.settings = Settings(config)
         /\ a.parameters.model_export = "rf_model:latest"
    /\ { a.step : a \in past } = StepNames
    /\ \A a \in past : a.cwd = cwd

----------------------------------------------------------------------------
(* C9 *)

TrackingKeys == { "WANDB_PROJECT", "WANDB_RUN_GROUP" }

TrackingWritten ==
    \/ pc \in { "resolve", "if", "write", "run", "in_run", "done" }
    \/ pc = "failed" /\ TrackingConfigured

C9_WrittenOnce ==
    /\ \A k \in TrackingKeys : Count(Event("setenv", k)) <= 1
    /\ Happened(Event("setenv", "WANDB_PROJECT")) =>
          /\ "WANDB_PROJECT" \in DOMAIN environ
          /\ environ["WANDB_PROJECT"] = config.main.at.project_name
    /\ Happened(Event("setenv", "WANDB_RUN_GROUP")) =>
          /\ "WANDB_RUN_GROUP" \in DOMAIN environ
          /\ environ["WANDB_RUN_GROUP"] = config.main.at.experiment_name
    /\ TrackingWritten => \A k \in TrackingKeys : Happened(Event("setenv", k))
    /\ \A j \in 1..Len(events) : events[j].op = "setenv" => j <= 2
    /\ \A i \in 1..Len(calls) :
          calls[i].env = [ WANDB_PROJECT |-> config.main.at.project_name,
                           WANDB_RUN_GROUP |-> config.main.at.experiment_name ]

\* A variable go() has written keeps its value.
C9_Stable ==
    \A k \in TrackingKeys :
        Happened(Event("setenv", k)) =>
            k \in DOMAIN environ' /\ environ'[k] = environ[k]

\* C9: each tracking variable is written once, from main.project_name and
\* main.experiment_name, before any dispatch, whatever value the process
\* inherited for it; every step is dispatched with both in its environment;
\* and a variable once written keeps its value in every later state of the
\* run, failure included.
C9_TrackingEnvironment == [] C9_WrittenOnce /\ [][C9_Stable]_vars

C9_Witness ==
    /\ pc = "failed"
    /\ error = "StepDispatchError"
    /\ Len(calls) = 2
    /\ environ = [ WANDB_PROJECT |-> "genre_classification",
                   WANDB_RUN_GROUP |-> "dev" ]

----------------------------------------------------------------------------
(* C10 *)

\* C10: at most one step is in flight, and only while go() is blocked in
\* mlflow.run; between two dispatches the earlier one has returned; a run
\* that completed has nothing in flight, no error, and ended with the return
\* of the last step of its plan.
C10_SequentialBlocking ==
    /\ Cardinality(active) <= 1
    /\ active # { } <=> pc = "in_run"
    /\ pc = "in_run" => active = { Last(DispatchedSteps) }
    /\ \A i, j \in 1..Len(events) :
         (i < j /\ events[i].op = "run" /\ events[j].op = "run") =>
            \E k \in (i + 1)..(j - 1) : events[k] = Event("return", events[i].arg)
    /\ pc = "done" =>
         /\ error = "none"
         /\ \A i \in 1..Len(calls) : Happened(Event("return", StepOf(calls[i])))
         /\ calls # << >> => Last(events) = Event("return", Last(Plan(Input)))

C10_Witness ==
    /\ pc = "done"
    /\ DispatchedSteps = Canonical
    /\ Input.type = "list"
    /\ Input.list = Reverse(Canonical)

====
